---------------------------- MODULE Spec2Model ----------------------------
(***************************************************************************)
(* The extended demo service of app.py: three tables (User, Product,       *)
(* Order) in one relational store, seven route handlers, simulated latency *)
(* and faults.  A request is handled by one of the server's threads; the   *)
(* state that handlers share is the store.  Every statement of a handler   *)
(* that touches the store is one atomic step; the sleeps are the points    *)
(* where the steps of other requests interleave.  The Redis key            *)
(* users_cache is written by get_users and read by nothing: it is left     *)
(* out, as is the text that before_request prints.                         *)
(*                                                                         *)
(* Prices and totals are floats in the source; here they are counted in    *)
(* cents.  Time is counted in days (the only arithmetic on time in the     *)
(* source is "utcnow() - timedelta(days=7)").  The created_at / last_login *)
(* columns of User and Product are written once by their column defaults   *)
(* and only serialised afterwards; they are left out of the rows.          *)
(***************************************************************************)
EXTENDS Integers, Sequences, FiniteSets, TLC

VARIABLES
    users,        \* rows of table user
    products,     \* rows of table product
    orders,       \* rows of table order
    now,          \* datetime.utcnow(), in days
    req,          \* per server thread: the request it is handling
    resp,         \* the response sent by the step just taken, or NoResp
    issued,       \* history: ids returned by 201 responses of POST /api/users
    snapA         \* history: one earlier 200 response of GET /api/analytics

vars == <<users, products, orders, now, req, resp, issued, snapA>>

store == <<users, products, orders>>

----------------------------------------------------------------------------
(* Bounds of the model *)

MaxUsers == 6      \* POST /api/users stops being issued at this many rows
MaxOrders == 1     \* POST /api/orders stops being issued at this many rows

Threads == {1, 2}  \* requests handled concurrently

----------------------------------------------------------------------------
(* Program constants *)

Week == 7                       \* timedelta(days=7)

\* The instants at which the clock is observed: both sides of the 7-day window.
SampleTimes == {0, Week, Week + 1}

----------------------------------------------------------------------------
(* Strings that the handlers inspect character by character *)

Electronics == <<"E","l","e","c","t","r","o","n","i","c","s">>
Appliances  == <<"A","p","p","l","i","a","n","c","e","s">>
Furniture   == <<"F","u","r","n","i","t","u","r","e">>

\* lower() on the characters that occur
Lower(c) ==
    CASE c = "E" -> "e"
      [] c = "A" -> "a"
      [] c = "F" -> "f"
      [] OTHER   -> c

RECURSIVE LowerStr(_)
LowerStr(s) == IF s = <<>> THEN <<>> ELSE <<Lower(Head(s))>> \o LowerStr(Tail(s))

\* SQL LIKE: % matches any run of characters, _ any one character
RECURSIVE Like(_, _)
Like(p, s) ==
    IF p = <<>> THEN s = <<>>
    ELSE IF Head(p) = "%"
         THEN Like(Tail(p), s) \/ (s # <<>> /\ Like(p, Tail(s)))
         ELSE /\ s # <<>>
              /\ (Head(p) = "_" \/ Head(p) = Head(s))
              /\ Like(Tail(p), Tail(s))

\* Product.category.ilike(f'%{category}%')
ILikeContains(column, category) ==
    Like(LowerStr(<<"%">> \o category \o <<"%">>), LowerStr(column))

----------------------------------------------------------------------------
(* Seed data, written when the user table is empty at start-up *)

sample_users ==
    { [id |-> 1, name |-> "John Doe",    email |-> "john@example.com",  role |-> "admin"],
      [id |-> 2, name |-> "Jane Smith",  email |-> "jane@example.com",  role |-> "user"],
      [id |-> 3, name |-> "Bob Johnson", email |-> "bob@example.com",   role |-> "user"],
      [id |-> 4, name |-> "Alice Brown", email |-> "alice@example.com", role |-> "manager"] }

sample_products ==
    { [id |-> 1, name |-> "Laptop Pro",          price |-> 129999, category |-> Electronics, stock |-> 45],
      [id |-> 2, name |-> "Wireless Headphones", price |-> 19999,  category |-> Electronics, stock |-> 120],
      [id |-> 3, name |-> "Coffee Maker",        price |-> 8999,   category |-> Appliances,  stock |-> 30],
      [id |-> 4, name |-> "Smartphone",          price |-> 79999,  category |-> Electronics, stock |-> 75],
      [id |-> 5, name |-> "Desk Chair",          price |-> 29999,  category |-> Furniture,   stock |-> 25] }

----------------------------------------------------------------------------
(* The store *)

Ids(rows) == { r.id : r \in rows }

Max(S) == CHOOSE m \in S : \A x \in S : x <= m

\* Integer primary key: the store assigns the largest id in the table plus one
\* (NextIdReused: the variant that hands out the largest id again)
NextIdReused(rows) == IF rows = {} THEN 1 ELSE Max(Ids(rows))
NextId(rows) == IF rows = {} THEN 1 ELSE Max(Ids(rows)) + 1

\* User.query.get(id): the row with that primary key, if any
UserExists(us, id) == \E u \in us : u.id = id

\* unique=True on User.email: would inserting this email violate it?
EmailTaken(us, email) == \E u \in us : u.email = email

----------------------------------------------------------------------------
(* Requests *)

\* A field of a JSON body: absent, null, or a value
Missing == [kind |-> "missing", v |-> ""]
Null    == [kind |-> "null", v |-> ""]
Str(x)  == [kind |-> "str", v |-> x]

NoNum      == [kind |-> "missing", num |-> 0]
NullNum    == [kind |-> "null", num |-> 0]
IntNum(n)  == [kind |-> "int", num |-> n]

\* A query-string argument: request.args.get(...) is None when it is not given
NoArg(filler) == [given |-> FALSE, v |-> filler]
Arg(x)        == [given |-> TRUE, v |-> x]

\* Inputs the clients send
RoleArgs     == { NoArg(""), Arg("admin"), Arg("user"), Arg("") }
CategoryArgs == { NoArg(<<>>), Arg(<<>>), Arg(<<"e","l","e","c">>), Arg(<<"F","u","r">>),
                  Arg(<<"_">>) }
PriceArgs    == { NoArg(0), Arg(0), Arg(10000), Arg(20000) }

UserBodies ==
    [ name  : { Missing, Null, Str("Eve") },
      email : { Missing, Null, Str("john@example.com"), Str("eve@example.com"),
                Str("dan@example.com") },
      role  : { Missing, Str("user") } ]

\* The fields of the body of POST /api/orders
UserIdFields == { NoNum, IntNum(1), IntNum(5), IntNum(9999) }
TotalFields  == { NoNum, NullNum, IntNum(1000) }

\* The routes, and not_found for a request that matches none of them
Routes == { "health_check", "get_users", "create_user", "get_products",
            "create_order", "get_analytics", "slow_endpoint", "not_found" }

\* A thread: where it is in its handler, the userId of the order it is placing,
\* the counts get_analytics has read so far.  known and after are history:
\* whether userId named a user when the request arrived, and whether the
\* response kept in snapA had been sent when the request arrived.
Idle == [ pc |-> "idle", userId |-> NoNum, known |-> FALSE, after |-> FALSE,
          total_users |-> 0, total_products |-> 0, total_orders |-> 0 ]

InFlight(pcs) == Cardinality({ w \in Threads : req[w].pc \in pcs })

----------------------------------------------------------------------------
(* Responses *)

NoResp == [ handler |-> "none", status |-> 0, args |-> <<>>, body |-> <<>> ]
NoSnap == [ taken |-> FALSE, total_users |-> 0, total_products |-> 0,
            total_orders |-> 0, recent_orders |-> 0, oldest |-> 0 ]

\* A response as the model records it: in full (with the request's arguments
\* and the body), or only the handler and the status code.
Response(full, h, status, args, body) ==
    IF full
    THEN [ handler |-> h, status |-> status, args |-> args, body |-> body ]
    ELSE [ handler |-> h, status |-> status, args |-> <<>>, body |-> <<>> ]

Error(text) == [ error |-> text ]

----------------------------------------------------------------------------
(* Queries and inserts of the handlers *)

\* get_users: query = User.query; if role: query = query.filter(User.role == role)
UsersQuery(us, role) ==
    IF role.given /\ role.v # "" THEN { u \in us : u.role = role.v } ELSE us

\* get_products: each filter is applied when its argument is truthy
ProductsQuery(ps, category, min_price, max_price) ==
    { p \in ps :
        /\ (category.given /\ category.v # <<>>) => ILikeContains(p.category, category.v)
        /\ (min_price.given /\ min_price.v # 0) => p.price >= min_price.v
        /\ (max_price.given /\ max_price.v # 0) => p.price <= max_price.v }

\* The Float column: what is stored and read back for a JSON number
ToFloat(n) == [ kind |-> "float", num |-> n.num ]

\* create_user, lines 157-164: the row to insert, or the exception raised
\* (UserInsertNoUnique: the variant without the unique constraint on email)
UserInsertNoUnique(us, data, fault) ==
    IF data.name.kind = "missing" \/ data.email.kind = "missing"
    THEN [ ok |-> FALSE, error |-> "KeyError" ]
    ELSE IF data.name.kind = "null" \/ data.email.kind = "null"
    THEN [ ok |-> FALSE, error |-> "IntegrityError" ]
    ELSE IF fault
    THEN [ ok |-> FALSE, error |-> "OperationalError" ]
    ELSE [ ok |-> TRUE,
           row |-> [ id |-> NextId(us), name |-> data.name.v, email |-> data.email.v,
                     role |-> IF data.role.kind = "missing" THEN "user" ELSE data.role.v ] ]
UserInsert(us, data, fault) ==
    IF data.name.kind = "missing" \/ data.email.kind = "missing"
    THEN [ ok |-> FALSE, error |-> "KeyError" ]
    ELSE IF data.name.kind = "null" \/ data.email.kind = "null" \/ EmailTaken(us, data.email.v)
    THEN [ ok |-> FALSE, error |-> "IntegrityError" ]
    ELSE IF fault
    THEN [ ok |-> FALSE, error |-> "OperationalError" ]
    ELSE [ ok |-> TRUE,
           row |-> [ id |-> NextId(us), name |-> data.name.v, email |-> data.email.v,
                     role |-> IF data.role.kind = "missing" THEN "user" ELSE data.role.v ] ]

\* create_order, lines 230-236: the row to insert, or the exception raised
\* (OrderInsertPending: the variant that leaves status to its column default)
OrderInsertPending(os, userId, total, t, fault) ==
    IF total.kind = "missing"
    THEN [ ok |-> FALSE, error |-> "KeyError" ]
    ELSE IF total.kind = "null"
    THEN [ ok |-> FALSE, error |-> "IntegrityError" ]
    ELSE IF fault
    THEN [ ok |-> FALSE, error |-> "OperationalError" ]
    ELSE [ ok |-> TRUE,
           row |-> [ id |-> NextId(os), user_id |-> userId.num,
                     total |-> ToFloat(total), status |-> "pending",
                     created_at |-> t ] ]
OrderInsert(os, userId, total, t, fault) ==
    IF total.kind = "missing"
    THEN [ ok |-> FALSE, error |-> "KeyError" ]
    ELSE IF total.kind = "null"
    THEN [ ok |-> FALSE, error |-> "IntegrityError" ]
    ELSE IF fault
    THEN [ ok |-> FALSE, error |-> "OperationalError" ]
    ELSE [ ok |-> TRUE,
           row |-> [ id |-> NextId(os), user_id |-> userId.num,
                     total |-> ToFloat(total), status |-> "confirmed",
                     created_at |-> t ] ]

\* get_analytics: Order.query.filter(Order.created_at >= week_ago)
\* (RecentOrdersStrict: the variant with created_at > week_ago)
RecentOrdersStrict(os, week_ago) == { o \in os : o.created_at > week_ago }
RecentOrders(os, week_ago) == { o \in os : o.created_at >= week_ago }

Min(S) == CHOOSE m \in S : \A x \in S : m <= x

\* create_order, lines 219-228: what happens before the row is built
\* (OrderLookupUnchecked: the variant without the lookup of the user;
\*  OrderLookupFirst: the variant that accepts any userId once a user exists)
OrderLookupUnchecked(us, userId, err, fault) ==
    IF err THEN "payment_failed"
    ELSE IF userId.kind = "missing" THEN "KeyError"
    ELSE IF fault THEN "OperationalError"
    ELSE "found"
OrderLookupFirst(us, userId, err, fault) ==
    IF err THEN "payment_failed"
    ELSE IF userId.kind = "missing" THEN "KeyError"
    ELSE IF fault THEN "OperationalError"
    ELSE IF us = {} THEN "not_found"
    ELSE "found"
OrderLookup(us, userId, err, fault) ==
    IF err THEN "payment_failed"
    ELSE IF userId.kind = "missing" THEN "KeyError"
    ELSE IF fault THEN "OperationalError"
    ELSE IF ~UserExists(us, userId.num) THEN "not_found"
    ELSE "found"

----------------------------------------------------------------------------
(* Start-up: create_all() and the seed data of an empty store *)

Init ==
    /\ users = sample_users
    /\ products = sample_products
    /\ orders = {}
    /\ now = 0
    /\ req = [ w \in Threads |-> Idle ]
    /\ resp = NoResp
    /\ issued = {}
    /\ snapA = NoSnap

Done(w) == req' = [ req EXCEPT ![w] = Idle ]

Goto(w, pc) == req' = [ req EXCEPT ![w].pc = pc ]

----------------------------------------------------------------------------
(* The clock advances *)

Tick ==
    /\ \E t \in SampleTimes : t > now /\ now' = t
    /\ resp' = NoResp
    /\ UNCHANGED <<users, products, orders, req, issued, snapA>>

(* A request for one of the routes arrives at an idle thread *)
Receive(w, routes) ==
    /\ req[w].pc = "idle"
    /\ \E h \in routes :
         /\ h = "create_user" =>
               Cardinality(users) + InFlight({"create_user"}) < MaxUsers
         /\ h = "create_order" =>
               Cardinality(orders) + InFlight({"create_order", "create_order_commit"}) < MaxOrders
         /\ \E userId \in (IF h = "create_order" THEN UserIdFields ELSE {NoNum}) :
               req' = [ req EXCEPT ![w] =
                          [ Idle EXCEPT !.pc = h, !.userId = userId,
                              !.known = (h = "create_order" /\ UserExists(users, userId.num)),
                              !.after = (h = "get_analytics" /\ snapA.taken) ] ]
    /\ resp' = NoResp
    /\ UNCHANGED <<users, products, orders, now, issued, snapA>>

----------------------------------------------------------------------------
(* GET /api/health *)

health_check(w, full) ==
    /\ req[w].pc = "health_check"
    /\ resp' = Response(full, "health_check", 200, <<>>,
                        [ status |-> "healthy", timestamp |-> now, version |-> "1.0.0",
                          database |-> "connected", redis |-> "connected" ])
    /\ Done(w)
    /\ UNCHANGED <<users, products, orders, now, issued, snapA>>

(* GET /api/users *)

\* (get_users_assigning: the variant that writes the requested role to the rows)
get_users_assigning(w, full) ==
    /\ req[w].pc = "get_users"
    /\ \E err \in BOOLEAN, fault \in BOOLEAN :
         IF err
         THEN /\ resp' = Response(full, "get_users", 500, <<>>, Error("Database connection failed"))
              /\ UNCHANGED users
         ELSE IF fault
         THEN /\ resp' = Response(full, "get_users", 500, <<>>, Error("Failed to fetch users"))
              /\ UNCHANGED users
         ELSE \E role \in RoleArgs :
                /\ resp' = Response(full, "get_users", 200, role, UsersQuery(users, role))
                /\ users' = IF role.given /\ role.v # ""
                            THEN { [ u EXCEPT !.role = role.v ] : u \in users }
                            ELSE users
    /\ Done(w)
    /\ UNCHANGED <<products, orders, now, issued, snapA>>
get_users(w, full) ==
    /\ req[w].pc = "get_users"
    /\ \E err \in BOOLEAN, fault \in BOOLEAN :
         IF err
         THEN resp' = Response(full, "get_users", 500, <<>>, Error("Database connection failed"))
         ELSE IF fault
         THEN resp' = Response(full, "get_users", 500, <<>>, Error("Failed to fetch users"))
         ELSE \E role \in RoleArgs :
                resp' = Response(full, "get_users", 200, role, UsersQuery(users, role))
    /\ Done(w)
    /\ UNCHANGED <<users, products, orders, now, issued, snapA>>

(* POST /api/users *)

create_user(w, full) ==
    /\ req[w].pc = "create_user"
    /\ \E data \in UserBodies, fault \in BOOLEAN :
         LET r == UserInsert(users, data, fault) IN
         IF r.ok
         THEN /\ users' = users \cup { r.row }
              /\ issued' = issued \cup { r.row.id }
              /\ resp' = Response(full, "create_user", 201, data,
                                  [ id |-> r.row.id, message |-> "User created successfully" ])
         ELSE /\ resp' = Response(full, "create_user", 400, data, Error(r.error))
              /\ UNCHANGED <<users, issued>>
    /\ Done(w)
    /\ UNCHANGED <<products, orders, now, snapA>>

(* GET /api/products *)

get_products(w, full) ==
    /\ req[w].pc = "get_products"
    /\ \E err \in BOOLEAN, fault \in BOOLEAN :
         IF err
         THEN resp' = Response(full, "get_products", 503, <<>>, Error("Product service unavailable"))
         ELSE IF fault
         THEN resp' = Response(full, "get_products", 500, <<>>, Error("Failed to fetch products"))
         ELSE \E category \in CategoryArgs, min_price \in PriceArgs, max_price \in PriceArgs :
                resp' = Response(full, "get_products", 200,
                                 [ category |-> category, min_price |-> min_price,
                                   max_price |-> max_price ],
                                 ProductsQuery(products, category, min_price, max_price))
    /\ Done(w)
    /\ UNCHANGED <<users, products, orders, now, issued, snapA>>

(* POST /api/orders: the simulated payment fault and the lookup of the user *)

create_order(w, full) ==
    /\ req[w].pc = "create_order"
    /\ \E err \in BOOLEAN, fault \in BOOLEAN :
         LET args == [ userId |-> req[w].userId, known |-> req[w].known ]
             outcome == OrderLookup(users, req[w].userId, err, fault) IN
         CASE outcome = "payment_failed" ->
                /\ resp' = Response(full, "create_order", 402, args,
                                    Error("Payment processing failed"))
                /\ Done(w)
           [] outcome = "not_found" ->
                /\ resp' = Response(full, "create_order", 404, args, Error("User not found"))
                /\ Done(w)
           [] outcome = "found" ->
                /\ resp' = NoResp
                /\ Goto(w, "create_order_commit")
           [] OTHER ->
                /\ resp' = Response(full, "create_order", 400, args, Error(outcome))
                /\ Done(w)
    /\ UNCHANGED <<users, products, orders, now, issued, snapA>>

(* POST /api/orders: the Order row is built, added and committed *)

\* (create_order_commit_then_raise: the variant that raises after the commit)
create_order_commit_then_raise(w, full) ==
    /\ req[w].pc = "create_order_commit"
    /\ \E total \in TotalFields, fault \in BOOLEAN :
         LET args == [ userId |-> req[w].userId, known |-> req[w].known, total |-> total ]
             r == OrderInsert(orders, req[w].userId, total, now, fault) IN
         IF r.ok
         THEN /\ orders' = orders \cup { r.row }
              /\ resp' = Response(full, "create_order", 400, args, Error("AttributeError"))
         ELSE /\ resp' = Response(full, "create_order", 400, args, Error(r.error))
              /\ UNCHANGED orders
    /\ Done(w)
    /\ UNCHANGED <<users, products, now, issued, snapA>>
create_order_commit(w, full) ==
    /\ req[w].pc = "create_order_commit"
    /\ \E total \in TotalFields, fault \in BOOLEAN :
         LET args == [ userId |-> req[w].userId, known |-> req[w].known, total |-> total ]
             r == OrderInsert(orders, req[w].userId, total, now, fault) IN
         IF r.ok
         THEN /\ orders' = orders \cup { r.row }
              /\ resp' = Response(full, "create_order", 201, args,
                                  [ id |-> r.row.id, status |-> r.row.status,
                                    total |-> r.row.total, created_at |-> r.row.created_at,
                                    message |-> "Order placed successfully" ])
         ELSE /\ resp' = Response(full, "create_order", 400, args, Error(r.error))
              /\ UNCHANGED orders
    /\ Done(w)
    /\ UNCHANGED <<users, products, now, issued, snapA>>

(* GET /api/analytics: four count queries, one after the other *)

AnalyticsFailed(w, full) ==
    /\ resp' = Response(full, "get_analytics", 500, <<>>, Error("OperationalError"))
    /\ Done(w)
    /\ UNCHANGED snapA

get_analytics(w, full) ==
    /\ req[w].pc = "get_analytics"
    /\ \E fault \in BOOLEAN :
         IF fault THEN AnalyticsFailed(w, full)
         ELSE /\ req' = [ req EXCEPT ![w].pc = "get_analytics_products",
                                     ![w].total_users = Cardinality(users) ]
              /\ resp' = NoResp
              /\ UNCHANGED snapA
    /\ UNCHANGED <<users, products, orders, now, issued>>

get_analytics_products(w, full) ==
    /\ req[w].pc = "get_analytics_products"
    /\ \E fault \in BOOLEAN :
         IF fault THEN AnalyticsFailed(w, full)
         ELSE /\ req' = [ req EXCEPT ![w].pc = "get_analytics_orders",
                                     ![w].total_products = Cardinality(products) ]
              /\ resp' = NoResp
              /\ UNCHANGED snapA
    /\ UNCHANGED <<users, products, orders, now, issued>>

get_analytics_orders(w, full) ==
    /\ req[w].pc = "get_analytics_orders"
    /\ \E fault \in BOOLEAN :
         IF fault THEN AnalyticsFailed(w, full)
         ELSE /\ req' = [ req EXCEPT ![w].pc = "get_analytics_recent",
                                     ![w].total_orders = Cardinality(orders) ]
              /\ resp' = NoResp
              /\ UNCHANGED snapA
    /\ UNCHANGED <<users, products, orders, now, issued>>

\* The last query and the response.  When responses are recorded in full, the
\* first 200 response, or any later one, is kept in snapA for comparison.
get_analytics_recent(w, full) ==
    /\ req[w].pc = "get_analytics_recent"
    /\ \E fault \in BOOLEAN, keep \in (IF full THEN BOOLEAN ELSE {FALSE}) :
         IF fault THEN AnalyticsFailed(w, full)
         ELSE LET week_ago == now - Week
                  recent == RecentOrders(orders, week_ago)
                  body == [ total_users |-> req[w].total_users,
                            total_products |-> req[w].total_products,
                            total_orders |-> req[w].total_orders,
                            recent_orders |-> Cardinality(recent),
                            generated_at |-> now ] IN
              /\ resp' = Response(full, "get_analytics", 200,
                                  [ after |-> req[w].after, week_ago |-> week_ago ], body)
              /\ snapA' = IF ~snapA.taken /\ keep
                          THEN [ taken |-> TRUE,
                                 total_users |-> body.total_users,
                                 total_products |-> body.total_products,
                                 total_orders |-> body.total_orders,
                                 recent_orders |-> body.recent_orders,
                                 oldest |-> IF recent = {} THEN now
                                            ELSE Min({ o.created_at : o \in recent }) ]
                          ELSE snapA
              /\ Done(w)
    /\ UNCHANGED <<users, products, orders, now, issued>>

(* GET /api/slow-endpoint *)

slow_endpoint(w, full) ==
    /\ req[w].pc = "slow_endpoint"
    /\ resp' = Response(full, "slow_endpoint", 200, <<>>,
                        [ message |-> "This was a slow operation", duration |-> "2-5 seconds" ])
    /\ Done(w)
    /\ UNCHANGED <<users, products, orders, now, issued, snapA>>

(* A request that matches no route: errorhandler(404) *)

not_found(w, full) ==
    /\ req[w].pc = "not_found"
    /\ resp' = Response(full, "not_found", 404, <<>>, Error("Endpoint not found"))
    /\ Done(w)
    /\ UNCHANGED <<users, products, orders, now, issued, snapA>>

----------------------------------------------------------------------------
(* The service under every kind of request; of a response, the handler and *)
(* the status are recorded.                                                 *)

\* The handler of the request that thread w is serving takes its next step
Handle(w) ==
    \/ health_check(w, FALSE)
    \/ get_users(w, FALSE)
    \/ create_user(w, FALSE)
    \/ get_products(w, FALSE)
    \/ create_order(w, FALSE)
    \/ create_order_commit(w, FALSE)
    \/ get_analytics(w, FALSE)
    \/ get_analytics_products(w, FALSE)
    \/ get_analytics_orders(w, FALSE)
    \/ get_analytics_recent(w, FALSE)
    \/ slow_endpoint(w, FALSE)
    \/ not_found(w, FALSE)

Next ==
    \/ Tick
    \/ \E w \in Threads : Receive(w, Routes) \/ Handle(w)

\* A handler is straight-line code with bounded sleeps: once started, its
\* thread keeps taking steps.
Spec == Init /\ [][Next]_vars /\ \A w \in Threads : WF_vars(Handle(w))

(* Clients that list and create users; responses are recorded in full *)

NextUsers ==
    \E w \in Threads :
       \/ Receive(w, {"get_users", "create_user"})
       \/ get_users(w, TRUE)
       \/ create_user(w, TRUE)

SpecUsers == Init /\ [][NextUsers]_vars

(* Clients that list products *)

NextProducts ==
    \E w \in Threads :
       \/ Receive(w, {"get_products"})
       \/ get_products(w, TRUE)

SpecProducts == Init /\ [][NextProducts]_vars

(* Clients that create users and place orders *)

NextOrders ==
    \/ Tick
    \/ \E w \in Threads :
         \/ Receive(w, {"create_user", "create_order"})
         \/ create_user(w, FALSE)
         \/ create_order(w, TRUE)
         \/ create_order_commit(w, TRUE)

SpecOrders == Init /\ [][NextOrders]_vars

(* Clients that create users, place orders and read the analytics, as time passes *)

NextAnalytics ==
    \/ Tick
    \/ \E w \in Threads :
         \/ Receive(w, {"create_user", "create_order", "get_analytics"})
         \/ create_user(w, FALSE)
         \/ create_order(w, FALSE)
         \/ create_order_commit(w, FALSE)
         \/ get_analytics(w, TRUE)
         \/ get_analytics_products(w, TRUE)
         \/ get_analytics_orders(w, TRUE)
         \/ get_analytics_recent(w, TRUE)

SpecAnalytics == Init /\ [][NextAnalytics]_vars

----------------------------------------------------------------------------
(* Properties *)

\* Thread w took the step: its handler moved on or returned
Stepped(w) == req'[w] # req[w]

Returned(w, pcs) == req[w].pc \in pcs /\ req'[w].pc = "idle"

OrderResponse == resp.handler = "create_order"

\* C1, as stated: a POST /api/orders whose userId names no user of the store
\* when the request arrives is answered 404 (so never 201).
C1_AlwaysNotFound ==
    (OrderResponse /\ resp.args.userId.kind = "int" /\ ~resp.args.known)
        => resp.status = 404

\* C1, amended: when the handler reaches the lookup with an integer userId
\* that names no user of the store at that moment, the request ends there
\* with 404, or with 402 when the simulated payment fault fires before the
\* lookup, or with 400 when the lookup raises; it is never answered 201 and
\* no Order row is added.
C1_UnknownUserRejected ==
    [][ \A w \in Threads :
          ( /\ req[w].pc = "create_order"
            /\ Stepped(w)
            /\ req[w].userId.kind = "int"
            /\ ~UserExists(users, req[w].userId.num) )
          => ( /\ req'[w].pc = "idle"
               /\ resp'.handler = "create_order"
               /\ resp'.status \in {404, 402, 400}
               /\ resp'.status = 404 <=> resp'.body = Error("User not found")
               /\ orders' = orders ) ]_vars

C1_Witness ==
    /\ OrderResponse
    /\ resp.status = 404
    /\ resp.args.userId = IntNum(9999)
    /\ resp.body = Error("User not found")

\* The race behind C1 as stated: the user is created between the arrival of
\* the request and the lookup, and the order is accepted.
C1_NoLateUser ==
    (OrderResponse /\ ~resp.args.known) => resp.status # 201

\* What the claim C2 calls "contains the given substring case-insensitively"
ContainsCI(s, sub) ==
    \E i \in 1..(Len(s) - Len(sub) + 1) :
        LowerStr(SubSeq(s, i, i + Len(sub) - 1)) = LowerStr(sub)

\* C2: a 200 response of GET /api/products holds exactly the products that pass
\* every filter that was provided: category contains the substring
\* (case-insensitively), price >= min_price, price <= max_price.
C2_ExactlyTheFiltered ==
    (resp.handler = "get_products" /\ resp.status = 200)
        => resp.body = { p \in products :
                           /\ resp.args.category.given => ContainsCI(p.category, resp.args.category.v)
                           /\ resp.args.min_price.given => p.price >= resp.args.min_price.v
                           /\ resp.args.max_price.given => p.price <= resp.args.max_price.v }

\* C3: a 200 response of GET /api/users for role r holds exactly the users
\* whose role equals r, and all users when no role is supplied.
C3_ExactlyTheRole ==
    (resp.handler = "get_users" /\ resp.status = 200)
        => resp.body = IF resp.args.given
                       THEN { u \in users : u.role = resp.args.v }
                       ELSE users

\* C4: the id that a 201 response of POST /api/users returns is the id of no
\* user already in the store and was returned by no earlier 201 response.
C4_FreshId ==
    [][ (\E w \in Threads : Returned(w, {"create_user"})) /\ resp'.status = 201
          => ( /\ resp'.body.id \notin Ids(users)
               /\ resp'.body.id \notin issued
               /\ resp'.body.id \in Ids(users') ) ]_vars

C4_Witness ==
    /\ resp.handler = "create_user"
    /\ resp.status = 201
    /\ Cardinality(issued) = 2

AnalyticsPair ==
    /\ resp.handler = "get_analytics"
    /\ resp.status = 200
    /\ resp.args.after

\* C5, as stated: of two 200 responses A then B of GET /api/analytics (B
\* requested after A was sent) every count of B is at least that of A.
C5_AllCountsGrow ==
    AnalyticsPair
        => ( /\ resp.body.total_users >= snapA.total_users
             /\ resp.body.total_products >= snapA.total_products
             /\ resp.body.total_orders >= snapA.total_orders
             /\ resp.body.recent_orders >= snapA.recent_orders )

\* C5, amended: total_users, total_products and total_orders of B are at least
\* those of A; recent_orders of B is at least that of A when every order that A
\* counted as recent is still within the trailing 7 days when B is computed.
C5_CountsGrowWithinWindow ==
    AnalyticsPair
        => ( /\ resp.body.total_users >= snapA.total_users
             /\ resp.body.total_products >= snapA.total_products
             /\ resp.body.total_orders >= snapA.total_orders
             /\ (snapA.recent_orders = 0 \/ snapA.oldest >= resp.args.week_ago)
                   => resp.body.recent_orders >= snapA.recent_orders )

C5_Witness ==
    /\ AnalyticsPair
    /\ snapA.recent_orders = 1
    /\ snapA.oldest >= resp.args.week_ago
    /\ resp.body.generated_at = Week
    /\ resp.body.total_users > snapA.total_users

UniqueEmails(us) == \A u1, u2 \in us : u1.email = u2.email => u1 = u2

\* C6: no two User rows share an email, and a POST /api/users that omits name
\* or email, or whose email is that of a user in the store, is answered 400
\* and adds no user (so of two requests with the same new email at most one is
\* answered 201).
C6_EmailsStayUnique ==
    /\ [] UniqueEmails(users)
    /\ [][ (\E w \in Threads : Returned(w, {"create_user"}))
             /\ ( \/ resp'.args.name.kind = "missing"
                  \/ resp'.args.email.kind = "missing"
                  \/ EmailTaken(users, resp'.args.email.v) )
             => (resp'.status = 400 /\ users' = users) ]_vars

C6_Witness ==
    /\ resp.handler = "create_user"
    /\ resp.status = 400
    /\ resp.args.name.kind = "str"
    /\ resp.args.email = Str("eve@example.com")
    /\ \E u \in users : u.email = "eve@example.com" /\ u.id > 4

PostPcs == { "create_user", "create_order", "create_order_commit" }

GetPcs == { "health_check", "get_users", "get_products", "slow_endpoint", "not_found",
            "get_analytics", "get_analytics_products", "get_analytics_orders",
            "get_analytics_recent" }

NoPartialWrite ==
    /\ (resp' # NoResp) <=> (\E w \in Threads : req[w].pc # "idle" /\ req'[w].pc = "idle")
    /\ \A w \in Threads :
         (req[w].pc \in PostPcs /\ Stepped(w))
            => IF resp'.status = 201
               THEN \/ /\ resp'.handler = "create_user"
                       /\ \E row \in users' \ users : users' = users \cup {row}
                       /\ orders' = orders /\ products' = products
                    \/ /\ resp'.handler = "create_order"
                       /\ \E row \in orders' \ orders : orders' = orders \cup {row}
                       /\ users' = users /\ products' = products
               ELSE store' = store

C9_OrdersReferToUsers ==
    \A o \in orders : UserExists(users, o.user_id)

C9_Witness ==
    \E o \in orders : o.user_id = 5 /\ \E w \in Threads : req[w].pc = "create_user"

\* C10: a step of a GET handler leaves every row unchanged; no step changes or
\* removes a row; users are added only by POST /api/users, orders only by
\* POST /api/orders, and products never.
C10_RowsOnlyAdded ==
    [][ /\ \A w \in Threads : (req[w].pc \in GetPcs /\ Stepped(w)) => store' = store
        /\ users \subseteq users'
        /\ orders \subseteq orders'
        /\ products' = products
        /\ users' # users => \E w \in Threads : Returned(w, {"create_user"})
        /\ orders' # orders => \E w \in Threads : Returned(w, {"create_order_commit"}) ]_vars

C10_Witness ==
    /\ resp.handler = "get_users"
    /\ resp.status = 200
    /\ Cardinality(users) = MaxUsers
    /\ orders # {}

=============================================================================
